---- MODULE Spec2Model ----
(***************************************************************************)
(* Model of the event-booking ledger backend: family permissions           *)
(* (FamilyPermission), events (Event), payments (Transaction) and the      *)
(* notification fan-out, as implemented by the Express handlers of the     *)
(* event controller and the family controller over the Mongoose models.    *)
(*                                                                         *)
(* One action per HTTP handler.  For a handler H, H_status(...) is the HTTP *)
(* status it answers with in the current state; H(...) is its effect on    *)
(* the collections: a request answered with an error status changes        *)
(* nothing.                                                                *)
(***************************************************************************)
EXTENDS Integers, Sequences, FiniteSets, TLC

(* ------------------------------ bounds -------------------------------- *)
NumUsers == 3
MaxGrants == 2
MaxEvents == 2
MaxTx == 3
MaxClock == 2
MaxNotifications == 2
MaxServed == 4

Users == 1..NumUsers

(* null / undefined of a string field, of a number field, of a date, of an id *)
NULL == "null"
UNDEF == -1
NoDate == 0
NoId == 0

VARIABLES
  grants,         \* FamilyPermission collection, in insertion order; _id = index
  events,         \* Event collection; _id = index
  transactions,   \* Transaction collection; _id = index
  notifications,  \* Notification collection, in insertion order
  categories,     \* Category collection: the set of category names
  now,            \* the value the next `new Date()` returns
  inflight,       \* updatePayment requests suspended at an await (interleaved runs)
  fanout,         \* addPayment / updateEventStatusPriority requests suspended at an await
  upserts,        \* giveFamilyAccess requests whose findOneAndUpdate is under way
  served          \* how many requests have changed the collections so far

vars == <<grants, events, transactions, notifications, categories, now, inflight, fanout, upserts, served>>

(* requests are accepted while fewer than MaxServed of them have changed *)
(* the collections; a request that changes them is counted               *)
Accepting == served < MaxServed

Serve == served' = served + 1

(* ------------------------- FamilyPermission --------------------------- *)
Permissions == {"read", "write", "owner"}

(* findOne: the first matching document, as the id of the least index in S, *)
(* or NoId when nothing matches                                             *)
First(S) == IF S = {} THEN NoId ELSE CHOOSE i \in S : \A j \in S : i <= j

(* FamilyPermission.findOne({owner_id: ownerId, member_id: memberId}) *)
FindGrant(ownerId, memberId) ==
  First({i \in 1..Len(grants) :
           grants[i].owner_id = ownerId /\ grants[i].member_id = memberId})

(* FamilyPermission.findOne({member_id: memberId}) *)
FindGrantOfMember(memberId) ==
  First({i \in 1..Len(grants) : grants[i].member_id = memberId})

(* C3's mutant of checkAccess: the branch for the 'owner' level is lost *)
checkAccess_NoOwnerLevel(memberId, ownerId, required) ==
  IF memberId = ownerId THEN TRUE
  ELSE LET p == FindGrant(ownerId, memberId) IN
       IF p = NoId THEN FALSE
       ELSE IF required = "read" /\ grants[p].permission \in {"read", "write"} THEN TRUE
       ELSE IF required = "write" /\ grants[p].permission = "write" THEN TRUE
       ELSE FALSE

(* checkAccess of the event controller that has the payment fan-out: *)
(* it treats the 'owner' level as full access                         *)
checkAccess(memberId, ownerId, required) ==
  IF memberId = ownerId THEN TRUE
  ELSE LET p == FindGrant(ownerId, memberId) IN
       IF p = NoId THEN FALSE
       ELSE IF grants[p].permission = "owner" THEN TRUE
       ELSE IF required = "read" /\ grants[p].permission \in {"read", "write"} THEN TRUE
       ELSE IF required = "write" /\ grants[p].permission = "write" THEN TRUE
       ELSE FALSE

(* checkAccess of controllers/EventController.js: no branch for 'owner' *)
checkAccess_EventController(memberId, ownerId, required) ==
  IF memberId = ownerId THEN TRUE
  ELSE LET p == FindGrant(ownerId, memberId) IN
       IF p = NoId THEN FALSE
       ELSE IF required = "read" /\ grants[p].permission \in {"read", "write"} THEN TRUE
       ELSE IF required = "write" /\ grants[p].permission = "write" THEN TRUE
       ELSE FALSE

(* C21's mutant of ResolveOwner: the Grant of the member is not consulted *)
ResolveOwner_Self(actor) == actor

(* `let ownerId = user._id; findOne({member_id}); if (found) ownerId = found.owner_id` *)
ResolveOwner(actor) ==
  LET p == FindGrantOfMember(actor) IN
  IF p = NoId THEN actor ELSE grants[p].owner_id

(* User.email is unique: an address names one account. Address u is user u's; *)
(* NoEmail is a missing member_email, UnknownEmail an address of no account.   *)
EmailOf(u) == u
NoEmail == 0
UnknownEmail == NumUsers + 1
UserFindOneByEmail(email) == IF email \in Users THEN email ELSE NoId

(* findOneAndUpdate({owner_id, member_id}, {permission}, {upsert: true}) *)
Upsert(ownerId, memberId, permission) ==
  LET p == FindGrant(ownerId, memberId) IN
  IF p = NoId
  THEN Append(grants, [owner_id |-> ownerId, member_id |-> memberId, permission |-> permission])
  ELSE [grants EXCEPT ![p].permission = permission]

giveFamilyAccess_status(actor, member_email, permission) ==
  IF member_email = NoEmail \/ permission = NULL THEN 400
  ELSE IF permission \notin {"read", "write", "owner"} THEN 400
  ELSE IF member_email = EmailOf(actor) THEN 422
  ELSE IF UserFindOneByEmail(member_email) = NoId THEN 404
  ELSE 200

GiveFamilyAccess(actor, member_email, permission) ==
  Accepting /\ IF giveFamilyAccess_status(actor, member_email, permission) # 200 THEN UNCHANGED vars
  ELSE
    /\ FindGrant(actor, UserFindOneByEmail(member_email)) # NoId \/ Len(grants) < MaxGrants
    /\ grants' = Upsert(actor, UserFindOneByEmail(member_email), permission)
    /\ UNCHANGED <<events, transactions, notifications, categories, now, inflight, fanout, upserts>>
    /\ Serve

(* C20's mutant of FindOwnGrant: the lookup by _id alone *)
FindOwnGrant_AnyOwner(id, actor) ==
  IF id \in 1..Len(grants) THEN id ELSE NoId

(* FamilyPermission.findOne({_id: id, owner_id: user._id}) *)
FindOwnGrant(id, actor) ==
  IF id \in 1..Len(grants) /\ grants[id].owner_id = actor THEN id ELSE NoId

editFamilyPermission_status(actor, id, permission) ==
  IF permission \notin {"read", "write", "owner"} THEN 400
  ELSE IF FindOwnGrant(id, actor) = NoId THEN 404
  ELSE 200

EditFamilyPermission(actor, id, permission) ==
  Accepting /\ IF editFamilyPermission_status(actor, id, permission) # 200 THEN UNCHANGED vars
  ELSE
    /\ grants' = [grants EXCEPT ![id].permission = permission]
    /\ UNCHANGED <<events, transactions, notifications, categories, now, inflight, fanout, upserts>>
    /\ Serve

(* ------------------------------- Event -------------------------------- *)
ValidStatus == {0, 1, 2}
ValidPriorities == {"low", "medium", "high"}

(* C25's mutant of PreFind: the query hook is lost *)
PreFind_NoHook(id) == id \in 1..Len(events)

(* eventSchema.pre(/^find/): every find* query gets `is_deleted: false` *)
PreFind(id) == id \in 1..Len(events) /\ ~events[id].is_deleted

(* Event.findById(id) *)
EventFindById(id) == IF PreFind(id) THEN id ELSE NoId

(* Event.findOne({_id: id, user_id: ownerId}) *)
EventFindOne(id, ownerId) ==
  IF PreFind(id) /\ events[id].user_id = ownerId THEN id ELSE NoId

(* a status of JSON null: Number(null) is 0, and a Number path stores null *)
NullStatus == -3

(* `Number(status)` of the status check *)
NumberOf(status) == IF status = NullStatus THEN 0 ELSE status

(* the enum validators of eventSchema, run by save(); the enum validator of *)
(* a Number path accepts null                                               *)
EventValid(ev) ==
  ev.status \in ValidStatus \cup {NullStatus} /\ ev.priority \in ValidPriorities

(* request bodies of POST /events *)
GoodBody == [event_name |-> "party", contact_mobile |-> "555", booking_total_value |-> 5,
             advance_payment |-> UNDEF, payment_method |-> NULL, notes |-> NULL,
             category_name |-> "Wedding", priority |-> NULL]

CreateBodies ==
  { GoodBody,
    [GoodBody EXCEPT !.advance_payment = 0],
    [GoodBody EXCEPT !.advance_payment = 2, !.payment_method = "cash"],
    [GoodBody EXCEPT !.event_name = NULL],
    [GoodBody EXCEPT !.contact_mobile = NULL],
    [GoodBody EXCEPT !.booking_total_value = UNDEF],
    [GoodBody EXCEPT !.advance_payment = -5],
    [GoodBody EXCEPT !.category_name = NULL],
    [GoodBody EXCEPT !.priority = "urgent"] }

MaxEventNameLen == 255
MaxContactMobileLen == 20

(* `advance_payment = 0` and `priority = "medium"` of the destructuring *)
AdvanceOf(b) == IF b.advance_payment = UNDEF THEN 0 ELSE b.advance_payment
PriorityOf(b) == IF b.priority = NULL THEN "medium" ELSE b.priority

(* the 422 checks of createEvent. Bodies carry strings and numbers only, so *)
(* the typeof checks always pass.                                           *)
CreateBodyValid(b) ==
  /\ ~(b.event_name = NULL \/ Len(b.event_name) > MaxEventNameLen)
  /\ ~(b.contact_mobile = NULL \/ Len(b.contact_mobile) > MaxContactMobileLen)
  /\ ~(b.booking_total_value = UNDEF \/ b.booking_total_value < 0)
  /\ ~(AdvanceOf(b) # 0 /\ AdvanceOf(b) < 0)
  /\ ~(b.category_name = NULL)
  /\ PriorityOf(b) \in ValidPriorities

(* ---------------------------- Transaction ----------------------------- *)
(* the paths of transactionSchema; Mongoose (strict) stores no other key *)
TransactionPaths ==
  {"event_id", "added_by", "amount", "payment_method", "reference", "note", "deleted_at"}

(* `reference` is text joined by " | "; a part is caller text, a deletion    *)
(* reason with its timestamp, or "Soft deleted transaction id: <id>"         *)
Text(s) == [kind |-> "text", text |-> s, at |-> NoDate, id |-> NoId]
UpdateReason(at) ==
  [kind |-> "Soft deleted because user requested update at", text |-> "", at |-> at, id |-> NoId]
DeleteReason(at) ==
  [kind |-> "Soft deleted by user at", text |-> "", at |-> at, id |-> NoId]
OldIdNote(id) ==
  [kind |-> "Soft deleted transaction id:", text |-> "", at |-> NoDate, id |-> id]

(* a `reference` of a request body as stored text *)
RefText(reference) == IF reference = NULL THEN <<>> ELSE <<Text(reference)>>

(* an amount that does not cast to Number, such as "abc" *)
NotANumber == -2

(* `required: true` of event_id and amount, `type: Number` of amount *)
TransactionValid(doc) ==
  doc.event_id # NoId /\ doc.amount # UNDEF /\ doc.amount # NotANumber

(* the document Transaction.create(doc) inserts: schema paths and defaults *)
TransactionDoc(doc) ==
  [f \in TransactionPaths |->
     IF f \in DOMAIN doc THEN doc[f]
     ELSE IF f = "deleted_at" THEN NoDate
     ELSE IF f = "reference" THEN <<>>
     ELSE IF f \in {"payment_method", "note"} THEN NULL
     ELSE NoId]

(* C1's mutant of TransactionFindOne: the lookup by _id alone *)
TransactionFindOne_NoEventScope(paymentId, eventId) ==
  IF paymentId \in 1..Len(transactions) THEN paymentId ELSE NoId

(* Transaction.findOne({_id: paymentId, event_id: eventId}) *)
TransactionFindOne(paymentId, eventId) ==
  IF paymentId \in 1..Len(transactions) /\ transactions[paymentId].event_id = eventId
  THEN paymentId ELSE NoId

(* Transaction.find({event_id, deleted_at: null}) *)
ActiveTransactions(eventId) ==
  {t \in 1..Len(transactions) :
     transactions[t].event_id = eventId /\ transactions[t].deleted_at = NoDate}

(* --------------------------- createEvent ------------------------------ *)
createEvent_status(actor, b) ==
  IF ~CreateBodyValid(b) THEN 422
  ELSE IF ~checkAccess(actor, ResolveOwner(actor), "write") THEN 403
  ELSE 201

(* Event.create({...}) with the schema defaults *)
createEvent_events(actor, b) ==
  Append(events,
    [user_id |-> ResolveOwner(actor), event_name |-> b.event_name,
     contact_mobile |-> b.contact_mobile,
     booking_total_value |-> b.booking_total_value,
     advance_payment |-> AdvanceOf(b), payment_method |-> b.payment_method,
     notes |-> b.notes, category_id |-> b.category_name, created_by |-> actor,
     priority |-> PriorityOf(b), status |-> 1, is_deleted |-> FALSE,
     deleted_at |-> NoDate])

(* C22's mutant of createEvent_transactions: no Transaction for the advance *)
createEvent_transactions_NoAdvance(actor, b) == transactions

(* `if (advance_payment > 0) Transaction.create({...})` *)
createEvent_transactions(actor, b) ==
  IF AdvanceOf(b) > 0
  THEN Append(transactions,
         TransactionDoc([event_id |-> Len(events) + 1, amount |-> AdvanceOf(b),
                         payment_method |-> b.payment_method,
                         note |-> "Advance payment (initial)",
                         added_by |-> actor]))
  ELSE transactions

CreateEvent(actor, b) ==
  Accepting /\ IF createEvent_status(actor, b) # 201 THEN UNCHANGED vars
  ELSE
    /\ Len(events) < MaxEvents
    /\ AdvanceOf(b) > 0 => Len(transactions) < MaxTx
    /\ categories' = categories \cup {b.category_name}
    /\ events' = createEvent_events(actor, b)
    /\ transactions' = createEvent_transactions(actor, b)
    /\ UNCHANGED <<grants, notifications, now, inflight, fanout, upserts>>
    /\ Serve

(* ------------------------ notification fan-out ------------------------ *)
RECURSIVE Unique(_)
(* [...new Set(ids)]: first occurrences, in order *)
Unique(ids) ==
  IF ids = <<>> THEN <<>>
  ELSE LET init == Unique(SubSeq(ids, 1, Len(ids) - 1))
           x == ids[Len(ids)]
       IN IF \E i \in 1..Len(init) : init[i] = x THEN init ELSE Append(init, x)

(* the $in of FamilyPermission.find({owner_id, permission: {$in: [...]}}) *)
NotifyPermissions == {"owner", "write"}

FamilyMembers(ownerId) ==
  LET hit(g) == g.owner_id = ownerId /\ g.permission \in NotifyPermissions
      found == SelectSeq(grants, hit)
  IN [i \in 1..Len(found) |-> found[i].member_id]

(* C12's mutant of UniqueUserIds: the sender is not filtered out *)
UniqueUserIds_KeepsSender(ownerId, actor) ==
  Unique(<<ownerId>> \o FamilyMembers(ownerId))

(* uniqueUserIds: owner and permitted members, without duplicates and sender *)
UniqueUserIds(ownerId, actor) ==
  LET notSender(uid) == uid # actor
  IN SelectSeq(Unique(<<ownerId>> \o FamilyMembers(ownerId)), notSender)

(* NotificationModel.insertMany(uniqueUserIds.map(...)) *)
InsertMany(uids, title, message) ==
  notifications \o [i \in 1..Len(uids) |->
                      [user_id |-> uids[i], title |-> title, message |-> message]]

(* ----------------------------- payments ------------------------------- *)
EmptyBody == [amount |-> UNDEF, payment_method |-> NULL, reference |-> NULL, note |-> NULL]

PaymentBodies ==
  { [amount |-> 1, payment_method |-> "cash", reference |-> NULL, note |-> NULL],
    [amount |-> 2, payment_method |-> NULL, reference |-> "receipt", note |-> NULL],
    [amount |-> NotANumber, payment_method |-> NULL, reference |-> NULL, note |-> NULL],
    EmptyBody }

(* the argument of Transaction.create in addPayment *)
Payment(actor, event, b) ==
  [event_id |-> event, added_by |-> actor, amount |-> b.amount,
   payment_method |-> b.payment_method, reference |-> RefText(b.reference),
   note |-> b.note]

addPayment_status(actor, eventId, b) ==
  LET event == EventFindById(eventId) IN
  IF event = NoId THEN 404
  ELSE IF ~checkAccess(actor, events[event].user_id, "write") THEN 403
  ELSE IF ~TransactionValid(Payment(actor, event, b)) THEN 400
  ELSE 201

addPayment_transactions(actor, eventId, b) ==
  Append(transactions, TransactionDoc(Payment(actor, eventId, b)))

addPayment_notifications(actor, eventId, b) ==
  InsertMany(UniqueUserIds(events[eventId].user_id, actor), "New Payment Added",
             [who |-> actor, text |-> <<"added a payment of">>, amount |-> b.amount,
              event_name |-> events[eventId].event_name])

AddPayment(actor, eventId, b) ==
  Accepting /\ IF addPayment_status(actor, eventId, b) # 201 THEN UNCHANGED vars
  ELSE
    /\ Len(transactions) < MaxTx
    /\ Len(addPayment_notifications(actor, eventId, b)) <= MaxNotifications
    /\ transactions' = addPayment_transactions(actor, eventId, b)
    /\ notifications' = addPayment_notifications(actor, eventId, b)
    /\ UNCHANGED <<grants, events, categories, now, inflight, fanout, upserts>>
    /\ Serve

(* C24's mutant of MarkDeleted: the reason replaces the stored reference *)
MarkDeleted_ReplacesReference(doc, reason) ==
  [doc EXCEPT !.deleted_at = reason.at, !.reference = <<reason>>]

(* transaction.deleted_at = new Date(); transaction.reference = ... *)
MarkDeleted(doc, reason) ==
  [doc EXCEPT !.deleted_at = reason.at,
              !.reference = IF doc.reference # <<>> THEN doc.reference \o <<reason>>
                            ELSE <<reason>>]

(* the argument of Transaction.create in updatePayment *)
Successor(doc, oldId, actor, eventId, b) ==
  [event_id |-> eventId, added_by |-> actor,
   amount |-> IF b.amount # UNDEF THEN b.amount ELSE doc.amount,
   payment_method |-> IF b.payment_method # NULL THEN b.payment_method
                      ELSE doc.payment_method,
   note |-> IF b.note # NULL THEN b.note ELSE doc.note,
   reference |-> IF b.reference # NULL THEN <<Text(b.reference), OldIdNote(oldId)>>
                 ELSE <<OldIdNote(oldId)>>,
   old_transaction_id |-> oldId]

(* transaction.save(): writes the paths set on the loaded document *)
Save(id, doc) ==
  [transactions EXCEPT ![id].deleted_at = doc.deleted_at, ![id].reference = doc.reference]

updatePayment_status(actor, eventId, paymentId) ==
  LET event == EventFindById(eventId) IN
  IF event = NoId THEN 404
  ELSE IF ~checkAccess(actor, events[event].user_id, "write") THEN 403
  ELSE IF TransactionFindOne(paymentId, eventId) = NoId THEN 404
  ELSE 200

(* C5's mutant of updatePayment_transactions: the record is edited in place *)
updatePayment_transactions_InPlace(actor, eventId, paymentId, b) ==
  Append([transactions EXCEPT ![paymentId].amount =
            IF b.amount # UNDEF THEN b.amount ELSE @],
         TransactionDoc(Successor(transactions[paymentId], paymentId, actor, eventId, b)))

(* transaction.save(), then Transaction.create, which rejects an invalid    *)
(* document after the save is done                                          *)
updatePayment_transactions(actor, eventId, paymentId, b) ==
  LET old == MarkDeleted(transactions[paymentId], UpdateReason(now))
      new == Successor(old, paymentId, actor, eventId, b)
  IN IF TransactionValid(new) THEN Append(Save(paymentId, old), TransactionDoc(new))
     ELSE Save(paymentId, old)

(* the status of the response: that of the lookups, then 400 from the catch *)
(* when Transaction.create rejects, else 200                                *)
updatePayment_code(actor, eventId, paymentId, b) ==
  IF updatePayment_status(actor, eventId, paymentId) # 200
  THEN updatePayment_status(actor, eventId, paymentId)
  ELSE IF ~TransactionValid(Successor(transactions[paymentId], paymentId, actor, eventId, b))
  THEN 400
  ELSE 200

UpdatePayment(actor, eventId, paymentId, b) ==
  Accepting /\ IF updatePayment_status(actor, eventId, paymentId) # 200 THEN UNCHANGED vars
  ELSE
    /\ now <= MaxClock
    /\ Len(updatePayment_transactions(actor, eventId, paymentId, b)) <= MaxTx
    /\ now' = now + 1
    /\ transactions' = updatePayment_transactions(actor, eventId, paymentId, b)
    /\ UNCHANGED <<grants, events, notifications, categories, inflight, fanout, upserts>>
    /\ Serve

deletePayment_status(actor, eventId, paymentId) ==
  LET event == EventFindById(eventId) IN
  IF event = NoId THEN 404
  ELSE IF ~checkAccess(actor, events[event].user_id, "write") THEN 403
  ELSE IF TransactionFindOne(paymentId, eventId) = NoId THEN 404
  ELSE 200

deletePayment_transactions(actor, eventId, paymentId) ==
  Save(paymentId, MarkDeleted(transactions[paymentId], DeleteReason(now)))

DeletePayment(actor, eventId, paymentId) ==
  Accepting /\ IF deletePayment_status(actor, eventId, paymentId) # 200 THEN UNCHANGED vars
  ELSE
    /\ now <= MaxClock
    /\ now' = now + 1
    /\ transactions' = deletePayment_transactions(actor, eventId, paymentId)
    /\ UNCHANGED <<grants, events, notifications, categories, inflight, fanout, upserts>>
    /\ Serve

(* ---- updatePayment, one step per write: lookups, save(), create() ---- *)
Procs == {1, 2}

(* pc: "idle" before the request, "found" after the lookups, "saved" after *)
(* transaction.save(), "done" once the response is sent; doc is the loaded  *)
(* document, found_deleted_at the deleted_at the lookup read                *)
Idle == [pc |-> "idle", actor |-> NoId, event |-> NoId, tx |-> NoId, b |-> EmptyBody,
         doc |-> TransactionDoc([event_id |-> NoId, added_by |-> NoId, amount |-> UNDEF]),
         found_deleted_at |-> NoDate, code |-> 0]

UpdatePayment_find(p, actor, eventId, paymentId, b) ==
  /\ inflight[p].pc = "idle"
  /\ IF updatePayment_status(actor, eventId, paymentId) # 200
       THEN inflight' = [inflight EXCEPT ![p].pc = "done", ![p].actor = actor,
                           ![p].event = eventId, ![p].tx = paymentId,
                           ![p].code = updatePayment_status(actor, eventId, paymentId)]
       ELSE inflight' = [inflight EXCEPT ![p] =
              [pc |-> "found", actor |-> actor, event |-> eventId, tx |-> paymentId,
               b |-> b, doc |-> transactions[paymentId],
               found_deleted_at |-> transactions[paymentId].deleted_at, code |-> 0]]
  /\ UNCHANGED <<grants, events, transactions, notifications, categories, now, fanout, upserts>>
  /\ UNCHANGED served

UpdatePayment_save(p) ==
  LET old == MarkDeleted(inflight[p].doc, UpdateReason(now)) IN
  /\ inflight[p].pc = "found"
  /\ now <= MaxClock
  /\ now' = now + 1
  /\ transactions' = Save(inflight[p].tx, old)
  /\ inflight' = [inflight EXCEPT ![p].pc = "saved", ![p].doc = old]
  /\ UNCHANGED <<grants, events, notifications, categories, fanout, upserts>>
  /\ UNCHANGED served

UpdatePayment_create(p) ==
  LET r == inflight[p] IN
  /\ r.pc = "saved"
  /\ IF TransactionValid(Successor(r.doc, r.tx, r.actor, r.event, r.b))
       THEN /\ Len(transactions) < MaxTx
            /\ transactions' =
                 Append(transactions,
                        TransactionDoc(Successor(r.doc, r.tx, r.actor, r.event, r.b)))
            /\ inflight' = [inflight EXCEPT ![p].pc = "done", ![p].code = 200]
       ELSE /\ UNCHANGED transactions
            /\ inflight' = [inflight EXCEPT ![p].pc = "done", ![p].code = 400]
  /\ UNCHANGED <<grants, events, notifications, categories, now, fanout, upserts>>
  /\ UNCHANGED served

(* ------------------------- event mutations ---------------------------- *)
(* request bodies of PUT /events/:id *)
EventPatches ==
  {[user_id |-> u] : u \in Users}
    \cup { [status |-> 7], [is_deleted |-> TRUE], [is_deleted |-> FALSE], [role |-> "admin"] }

(* getEventById reads only: Event.findById, then checkAccess for read *)
getEventById_status(actor, id) ==
  LET event == EventFindById(id) IN
  IF event = NoId THEN 404
  ELSE IF ~checkAccess(actor, events[event].user_id, "read") THEN 403
  ELSE 200

(* `Transaction.find({event_id: event._id, deleted_at: null})` of getEventById *)
getEventById_transactions(id) == ActiveTransactions(id)

(* ------------------------------ getEvents ----------------------------- *)
(* FamilyPermission.find({member_id: user._id}) *)
FamilyPerms(user) == {i \in 1..Len(grants) : grants[i].member_id = user}

OwnerIdsWithAccess(user) == {grants[i].owner_id : i \in FamilyPerms(user)}

OwnerIdsWithFullAccess(user) ==
  {grants[i].owner_id : i \in {k \in FamilyPerms(user) : grants[k].permission = "owner"}}

(* Event.find({user_id: {$in: [user._id, ...ownerIdsWithAccess]}, is_deleted: false}) *)
getEvents_events(user) ==
  {e \in 1..Len(events) :
     /\ PreFind(e)
     /\ events[e].user_id \in {user} \cup OwnerIdsWithAccess(user)
     /\ events[e].is_deleted = FALSE}

(* isMainOwner || some permission is "owner" || ownerIdsWithFullAccess.length > 0 *)
HasOwnerPermission(user) ==
  \/ FamilyPerms(user) = {}
  \/ \E i \in FamilyPerms(user) : grants[i].permission = "owner"
  \/ OwnerIdsWithFullAccess(user) # {}

(* Transaction.find(transactionsQuery): of the listed events, not deleted, *)
(* and added by the user when the user has no owner permission             *)
TransactionsQuery(user) ==
  {t \in 1..Len(transactions) :
     /\ transactions[t].event_id \in getEvents_events(user)
     /\ transactions[t].deleted_at = NoDate
     /\ HasOwnerPermission(user) \/ transactions[t].added_by = user}

(* eventTransactions: what getEvents attaches to a listed event *)
getEvents_transactions(user, event) ==
  IF HasOwnerPermission(user)
  THEN {t \in TransactionsQuery(user) : transactions[t].event_id = event}
  ELSE {t \in TransactionsQuery(user) :
          transactions[t].event_id = event /\ transactions[t].added_by = user}

(* getEvents of controllers/EventController.js: the same Event query over  *)
(* the distinct owner_ids of the user's permissions ...                    *)
getEvents_events_EventController(user) ==
  {e \in 1..Len(events) :
     /\ PreFind(e)
     /\ events[e].user_id \in {user} \cup {grants[i].owner_id : i \in FamilyPerms(user)}
     /\ events[e].is_deleted = FALSE}

(* ... and every Transaction of a listed event that is not deleted *)
getEvents_transactions_EventController(user, event) ==
  {t \in 1..Len(transactions) :
     /\ transactions[t].event_id \in getEvents_events_EventController(user)
     /\ transactions[t].deleted_at = NoDate
     /\ transactions[t].event_id = event}

(* Object.assign(event, req.body): keys that are no schema path are not stored *)
Assign(ev, patch) ==
  [f \in DOMAIN ev |-> IF f \in DOMAIN patch THEN patch[f] ELSE ev[f]]

updateEvent_status(actor, id, patch) ==
  LET event == EventFindById(id) IN
  IF event = NoId THEN 404
  ELSE IF ~checkAccess(actor, events[event].user_id, "write") THEN 403
  ELSE IF ~EventValid(Assign(events[event], patch)) THEN 400
  ELSE 200

updateEvent_events(actor, id, patch) ==
  [events EXCEPT ![id] = Assign(events[id], patch)]

UpdateEvent(actor, id, patch) ==
  Accepting /\ IF updateEvent_status(actor, id, patch) # 200 THEN UNCHANGED vars
  ELSE
    /\ events' = updateEvent_events(actor, id, patch)
    /\ UNCHANGED <<grants, transactions, notifications, categories, now, inflight, fanout, upserts>>
    /\ Serve

deleteEvent_status(actor, id) ==
  LET event == EventFindById(id) IN
  IF event = NoId THEN 404
  ELSE IF ~checkAccess(actor, events[event].user_id, "write") THEN 403
  ELSE IF events[event].is_deleted THEN 400
  ELSE 200

deleteEvent_events(actor, id) ==
  [events EXCEPT ![id].is_deleted = TRUE, ![id].deleted_at = now]

DeleteEvent(actor, id) ==
  Accepting /\ IF deleteEvent_status(actor, id) # 200 THEN UNCHANGED vars
  ELSE
    /\ now <= MaxClock
    /\ now' = now + 1
    /\ events' = deleteEvent_events(actor, id)
    /\ UNCHANGED <<grants, transactions, notifications, categories, inflight, fanout, upserts>>
    /\ Serve

(* request bodies of PUT /events/:id/update *)
StatusBodies ==
  { [status |-> UNDEF, priority |-> NULL], [status |-> 2, priority |-> NULL],
    [status |-> UNDEF, priority |-> "high"], [status |-> 7, priority |-> NULL],
    [status |-> UNDEF, priority |-> "urgent"], [status |-> NullStatus, priority |-> NULL] }

updateEventStatusPriority_status(actor, id, b) ==
  IF b.status = UNDEF /\ b.priority = NULL THEN 400
  ELSE IF b.status # UNDEF /\ NumberOf(b.status) \notin ValidStatus THEN 422
  ELSE IF b.priority # NULL /\ b.priority \notin ValidPriorities THEN 422
  ELSE IF ~checkAccess(actor, ResolveOwner(actor), "write") THEN 403
  ELSE IF EventFindOne(id, ResolveOwner(actor)) = NoId THEN 404
  ELSE 201

(* `if (status !== undefined) event.status = status; ...; event.save()`;     *)
(* eventSchema has no updated_by path, so that assignment is not stored     *)
updateEventStatusPriority_events(actor, id, b) ==
  [events EXCEPT ![id].status = IF b.status # UNDEF THEN b.status ELSE @,
                 ![id].priority = IF b.priority # NULL THEN b.priority ELSE @]

(* messageParts: what the message says about status and priority *)
MessageParts(b) ==
  (IF b.status = UNDEF THEN <<>>
   ELSE IF b.status = 2 THEN <<"completed the event">>
   ELSE IF b.status = 1 THEN <<"marked as pending">>
   ELSE IF b.status = 0 THEN <<"set to inactive">>
   ELSE <<"status updated to">>)
  \o (IF b.priority = NULL THEN <<>> ELSE <<"priority set to", b.priority>>)

updateEventStatusPriority_notifications(actor, id, b) ==
  InsertMany(UniqueUserIds(events[id].user_id, actor), "Event Updated",
             [who |-> actor, text |-> MessageParts(b), amount |-> UNDEF,
              event_name |-> events[id].event_name])

UpdateEventStatusPriority(actor, id, b) ==
  Accepting /\ IF updateEventStatusPriority_status(actor, id, b) # 201 THEN UNCHANGED vars
  ELSE
    /\ Len(updateEventStatusPriority_notifications(actor, id, b)) <= MaxNotifications
    /\ events' = updateEventStatusPriority_events(actor, id, b)
    /\ notifications' = updateEventStatusPriority_notifications(actor, id, b)
    /\ UNCHANGED <<grants, transactions, categories, now, inflight, fanout, upserts>>
    /\ Serve

(* ------------- addPayment and updateEventStatusPriority, await by await ------------- *)
(* pc: "idle" before the request, "committed" after Transaction.create or   *)
(* event.save(), "pushing" while oneSignalClient.createNotification is      *)
(* awaited, "done" once the response is sent. stored: insertMany resolved;  *)
(* sink: how the push call ended; code and text: the response.              *)
NoFanout ==
  [pc |-> "idle", op |-> "none", actor |-> NoId, event |-> NoId, b |-> EmptyBody,
   sb |-> [status |-> UNDEF, priority |-> NULL], stored |-> FALSE, sink |-> "none",
   code |-> 0, text |-> ""]

SinkOutcomes == {"ok", "error"}

(* the requests followed await by await: one call at a time *)
Callers == {1}

(* whether `transaction` is a binding where the handler builds its 201 body: *)
(* addPayment declares it, updateEventStatusPriority does not, and there    *)
(* evaluating the body throws a ReferenceError into the enclosing catch     *)
TransactionInScope(op) == op = "addPayment"

(* C13's mutant of PushResponse: a rejected push call reaches the outermost *)
(* catch of the handler                                                     *)
PushResponse_Rethrows(op, sink) ==
  IF sink = "error"
  THEN (IF op = "addPayment" THEN [code |-> 400, text |-> "err.message", record |-> "none"]
        ELSE [code |-> 500, text |-> "Server error", record |-> "none"])
  ELSE [code |-> 201, text |-> "Payment added & notifications sent successfully.",
        record |-> "transaction"]

(* the response after the push call ended as sink: the inner catch only     *)
(* logs, then the 201 body is built; the catch around it answers 201 too    *)
PushResponse(op, sink) ==
  IF TransactionInScope(op)
  THEN [code |-> 201, text |-> "Payment added & notifications sent successfully.",
        record |-> "transaction"]
  ELSE [code |-> 201, text |-> "Payment added but OneSignal notification failed.",
        record |-> "event"]

(* the response of the outermost catch of each handler *)
CatchResponse(op) ==
  IF op = "addPayment" THEN [code |-> 400, text |-> "err.message"]
  ELSE [code |-> 500, text |-> "Server error"]

AddPayment_create(p, actor, eventId, b) ==
  /\ fanout[p].pc = "idle"
  /\ IF addPayment_status(actor, eventId, b) # 201
       THEN /\ fanout' = [fanout EXCEPT ![p].pc = "done", ![p].op = "addPayment",
                            ![p].code = addPayment_status(actor, eventId, b),
                            ![p].text = "error"]
            /\ UNCHANGED transactions
       ELSE /\ Len(transactions) < MaxTx
            /\ transactions' = addPayment_transactions(actor, eventId, b)
            /\ fanout' = [fanout EXCEPT ![p].pc = "committed", ![p].op = "addPayment",
                            ![p].actor = actor, ![p].event = eventId, ![p].b = b]
  /\ UNCHANGED <<grants, events, notifications, categories, now, inflight, served, upserts>>

UpdateEventStatusPriority_save(p, actor, id, b) ==
  /\ fanout[p].pc = "idle"
  /\ IF updateEventStatusPriority_status(actor, id, b) # 201
       THEN /\ fanout' = [fanout EXCEPT ![p].pc = "done",
                            ![p].op = "updateEventStatusPriority",
                            ![p].code = updateEventStatusPriority_status(actor, id, b),
                            ![p].text = "error"]
            /\ UNCHANGED events
       ELSE /\ events' = updateEventStatusPriority_events(actor, id, b)
            /\ fanout' = [fanout EXCEPT ![p].pc = "committed",
                            ![p].op = "updateEventStatusPriority",
                            ![p].actor = actor, ![p].event = id, ![p].sb = b]
  /\ UNCHANGED <<grants, transactions, notifications, categories, now, inflight, served, upserts>>

(* FamilyPermission.find and NotificationModel.insertMany; stored = FALSE   *)
(* is insertMany rejecting, which the outermost catch answers               *)
Fanout_insertMany(p, stored) ==
  LET r == fanout[p]
      store == IF r.op = "addPayment" THEN addPayment_notifications(r.actor, r.event, r.b)
               ELSE updateEventStatusPriority_notifications(r.actor, r.event, r.sb)
  IN /\ r.pc = "committed"
     /\ IF stored
          THEN /\ Len(store) <= MaxNotifications
               /\ notifications' = store
               /\ fanout' = [fanout EXCEPT ![p].pc = "pushing", ![p].stored = TRUE]
          ELSE /\ UNCHANGED notifications
               /\ fanout' = [fanout EXCEPT ![p].pc = "done",
                               ![p].code = CatchResponse(r.op).code,
                               ![p].text = CatchResponse(r.op).text]
     /\ UNCHANGED <<grants, events, transactions, categories, now, inflight, served, upserts>>

(* `await oneSignalClient.createNotification(notification)` settles as sink *)
Fanout_push(p, sink) ==
  /\ fanout[p].pc = "pushing"
  /\ fanout' = [fanout EXCEPT ![p].pc = "done", ![p].sink = sink,
                  ![p].code = PushResponse(fanout[p].op, sink).code,
                  ![p].text = PushResponse(fanout[p].op, sink).text]
  /\ UNCHANGED <<grants, events, transactions, notifications, categories, now,
                 inflight, served, upserts>>

(* ------------------- giveFamilyAccess, with the upsert in two ------------------- *)
(* findOneAndUpdate(filter, update, {upsert: true}) matches the filter and  *)
(* then updates the match or inserts; familyPermissionSchema declares no    *)
(* unique index on (owner_id, member_id), so the store does not serialize   *)
(* two upserts of one pair: both may match nothing before either inserts.   *)
NoUpsert ==
  [pc |-> "idle", owner |-> NoId, member |-> NoId, permission |-> NULL,
   matched |-> NoId, code |-> 0]

GiveFamilyAccess_match(p, actor, member_email, permission) ==
  /\ upserts[p].pc = "idle"
  /\ IF giveFamilyAccess_status(actor, member_email, permission) # 200
       THEN upserts' = [upserts EXCEPT ![p].pc = "done",
                          ![p].code = giveFamilyAccess_status(actor, member_email, permission)]
       ELSE upserts' = [upserts EXCEPT ![p] =
              [pc |-> "matched", owner |-> actor,
               member |-> UserFindOneByEmail(member_email), permission |-> permission,
               matched |-> FindGrant(actor, UserFindOneByEmail(member_email)),
               code |-> 0]]
  /\ UNCHANGED <<grants, events, transactions, notifications, categories, now,
                 inflight, fanout, served>>

GiveFamilyAccess_write(p) ==
  LET r == upserts[p] IN
  /\ r.pc = "matched"
  /\ IF r.matched # NoId
       THEN grants' = [grants EXCEPT ![r.matched].permission = r.permission]
       ELSE /\ Len(grants) < MaxGrants
            /\ grants' = Append(grants, [owner_id |-> r.owner, member_id |-> r.member,
                                         permission |-> r.permission])
  /\ upserts' = [upserts EXCEPT ![p].pc = "done", ![p].code = 200]
  /\ UNCHANGED <<events, transactions, notifications, categories, now,
                 inflight, fanout, served>>

(* --------------------------- specification ---------------------------- *)
Init ==
  /\ grants = <<>>
  /\ events = <<>>
  /\ transactions = <<>>
  /\ notifications = <<>>
  /\ categories = {}
  /\ now = 1
  /\ inflight = [p \in Procs |-> Idle]
  /\ fanout = [p \in Procs |-> NoFanout]
  /\ upserts = [p \in Procs |-> NoUpsert]
  /\ served = 0

EventIds == 1..MaxEvents
TxIds == 1..MaxTx

Next ==
  \/ \E a \in Users, m \in Users \cup {NoEmail, UnknownEmail},
        p \in Permissions \cup {NULL, "admin"} : GiveFamilyAccess(a, m, p)
  \/ \E a \in Users, g \in 1..MaxGrants, p \in Permissions \cup {"admin"} :
        EditFamilyPermission(a, g, p)
  \/ \E a \in Users, b \in CreateBodies : CreateEvent(a, b)
  \/ \E a \in Users, e \in EventIds, b \in PaymentBodies : AddPayment(a, e, b)
  \/ \E a \in Users, e \in EventIds, t \in TxIds, b \in PaymentBodies :
        UpdatePayment(a, e, t, b)
  \/ \E a \in Users, e \in EventIds, t \in TxIds : DeletePayment(a, e, t)
  \/ \E a \in Users, e \in EventIds, p \in EventPatches : UpdateEvent(a, e, p)
  \/ \E a \in Users, e \in EventIds : DeleteEvent(a, e)
  \/ \E a \in Users, e \in EventIds, b \in StatusBodies :
        UpdateEventStatusPriority(a, e, b)

Spec == Init /\ [][Next]_vars

(* requests interleaved at the awaits of updatePayment *)
NextInterleaved ==
  \/ \E a \in Users, b \in CreateBodies : CreateEvent(a, b)
  \/ \E p \in Procs, a \in Users, e \in EventIds, t \in TxIds, b \in PaymentBodies :
        UpdatePayment_find(p, a, e, t, b)
  \/ \E p \in Procs : UpdatePayment_save(p)
  \/ \E p \in Procs : UpdatePayment_create(p)

SpecInterleaved == Init /\ [][NextInterleaved]_vars

(* addPayment and updateEventStatusPriority interleaved at their awaits.    *)
(* The store settles every query it is sent, so the handlers' own steps are *)
(* weakly fair; the push provider owes no answer, so Fanout_push is not.    *)
FanoutStoreSteps ==
  \/ \E p \in Callers, a \in Users, e \in EventIds, b \in PaymentBodies :
        AddPayment_create(p, a, e, b)
  \/ \E p \in Callers, a \in Users, e \in EventIds, b \in StatusBodies :
        UpdateEventStatusPriority_save(p, a, e, b)
  \/ \E p \in Callers, stored \in BOOLEAN : Fanout_insertMany(p, stored)

NextFanout ==
  \/ \E a \in Users, m \in Users, p \in {"write", "read"} : GiveFamilyAccess(a, m, p)
  \/ \E a \in Users, b \in {GoodBody} : CreateEvent(a, b)
  \/ \E p \in Callers, a \in Users, e \in EventIds, b \in PaymentBodies :
        AddPayment_create(p, a, e, b)
  \/ \E p \in Callers, a \in Users, e \in EventIds, b \in StatusBodies :
        UpdateEventStatusPriority_save(p, a, e, b)
  \/ \E p \in Callers, stored \in BOOLEAN : Fanout_insertMany(p, stored)
  \/ \E p \in Callers, sink \in SinkOutcomes : Fanout_push(p, sink)

SpecFanout == Init /\ [][NextFanout]_vars /\ WF_vars(FanoutStoreSteps)

(* two giveFamilyAccess requests interleaved at the two steps of the upsert, *)
(* among editFamilyPermission requests                                      *)
NextGrants ==
  \/ \E a \in Users, g \in 1..MaxGrants, p \in Permissions \cup {"admin"} :
        EditFamilyPermission(a, g, p)
  \/ \E q \in Procs, a \in Users, m \in Users \cup {UnknownEmail}, p \in Permissions :
        GiveFamilyAccess_match(q, a, m, p)
  \/ \E q \in Procs : GiveFamilyAccess_write(q)

SpecGrants == Init /\ [][NextGrants]_vars

(* ======================= properties of the model ====================== *)
Required == {"read", "write"}

(* the Grants of owner for member *)
GrantsFor(owner, member) ==
  {i \in 1..Len(grants) : grants[i].owner_id = owner /\ grants[i].member_id = member}

(* the access table of the permission model, read off the Grant store *)
AccessTable(actor, owner, required) ==
  \/ actor = owner
  \/ \E i \in GrantsFor(owner, actor) :
       \/ grants[i].permission \in {"owner", "write"}
       \/ grants[i].permission = "read" /\ required = "read"

(* the owner an Event stored as i has, or gets when the request creates it *)
OwnerAt(evs, i) == IF i <= Len(events) THEN events[i].user_id ELSE evs[i].user_id

(* a request of actor that leaves the collections as evs and txs touches    *)
(* only events (and transactions of events) whose owner lets actor write    *)
TouchesOnlyWritable(actor, evs, txs) ==
  /\ \A i \in 1..Len(evs) :
       (i > Len(events) \/ evs[i] # events[i]) => AccessTable(actor, OwnerAt(evs, i), "write")
  /\ \A j \in 1..Len(txs) :
       (j > Len(transactions) \/ txs[j] # transactions[j]) =>
          /\ txs[j].event_id \in 1..Len(evs)
          /\ AccessTable(actor, OwnerAt(evs, txs[j].event_id), "write")

(* every transaction a payment request changes or adds belongs to eventId *)
ThroughEvent(eventId, txs) ==
  \A j \in 1..Len(txs) :
     (j > Len(transactions) \/ txs[j] # transactions[j]) => txs[j].event_id = eventId

(* C1: every request that one of the ledger handlers accepts comes from an  *)
(* actor with write access to the stored owner of each event it changes and *)
(* of each transaction's event, and a payment request changes or supersedes *)
(* only transactions of the event it names.                                 *)
C1_LedgerChangesNeedWriteAccess ==
  \A a \in Users :
    /\ \A b \in CreateBodies :
         createEvent_status(a, b) = 201 =>
           TouchesOnlyWritable(a, createEvent_events(a, b), createEvent_transactions(a, b))
    /\ \A e \in EventIds :
         /\ \A b \in StatusBodies :
              updateEventStatusPriority_status(a, e, b) = 201 =>
                TouchesOnlyWritable(a, updateEventStatusPriority_events(a, e, b), transactions)
         /\ \A p \in EventPatches :
              updateEvent_status(a, e, p) = 200 =>
                TouchesOnlyWritable(a, updateEvent_events(a, e, p), transactions)
         /\ deleteEvent_status(a, e) = 200 =>
              TouchesOnlyWritable(a, deleteEvent_events(a, e), transactions)
         /\ \A b \in PaymentBodies :
              addPayment_status(a, e, b) = 201 =>
                /\ TouchesOnlyWritable(a, events, addPayment_transactions(a, e, b))
                /\ ThroughEvent(e, addPayment_transactions(a, e, b))
         /\ \A t \in TxIds :
              /\ \A b \in PaymentBodies :
                   updatePayment_status(a, e, t) = 200 =>
                     /\ TouchesOnlyWritable(a, events, updatePayment_transactions(a, e, t, b))
                     /\ ThroughEvent(e, updatePayment_transactions(a, e, t, b))
              /\ deletePayment_status(a, e, t) = 200 =>
                   /\ TouchesOnlyWritable(a, events, deletePayment_transactions(a, e, t))
                   /\ ThroughEvent(e, deletePayment_transactions(a, e, t))

(* C1 witness: a member holding a write grant has replaced a payment of the *)
(* owner's event, while another owner's event with a payment exists         *)
C1_Witness ==
  \E j \in 1..Len(transactions), k \in 1..Len(transactions) :
     /\ transactions[j].reference # <<>>
     /\ transactions[j].reference[Len(transactions[j].reference)] = OldIdNote(k)
     /\ transactions[j].added_by # events[transactions[j].event_id].user_id
     /\ \E i \in 1..Len(events) : events[i].user_id # events[transactions[j].event_id].user_id

(* C2: every checkAccess of the repository agrees with the access table for *)
(* all actors, owners and requirements.                                     *)
C2_CheckAccessIsTheTable ==
  \A a \in Users, o \in Users, r \in Required :
     /\ checkAccess(a, o, r) = AccessTable(a, o, r)
     /\ checkAccess_EventController(a, o, r) = AccessTable(a, o, r)

(* the user_ids of the records a fan-out appends to the store *)
Appended(store) ==
  {store[i].user_id : i \in (Len(notifications) + 1)..Len(store)}

(* C3: while a Grant of owner O for member M has level owner, M may write   *)
(* under O, and every fan-out for an event of O by another actor stores a   *)
(* Notification for M.                                                      *)
C3_OwnerLevelWritesAndIsNotified ==
  \A g \in 1..Len(grants) :
     grants[g].permission = "owner" =>
        LET O == grants[g].owner_id
            M == grants[g].member_id
        IN /\ checkAccess(M, O, "write")
           /\ \A a \in Users \ {M}, e \in 1..Len(events) :
                events[e].user_id = O =>
                  /\ \A b \in PaymentBodies :
                       addPayment_status(a, e, b) = 201 =>
                         M \in Appended(addPayment_notifications(a, e, b))
                  /\ \A b \in StatusBodies :
                       updateEventStatusPriority_status(a, e, b) = 201 =>
                         M \in Appended(updateEventStatusPriority_notifications(a, e, b))

(* C3 witness: M holds level owner under O and has been notified of a       *)
(* change another user made to an event of O                                *)
C3_Witness ==
  \E g \in 1..Len(grants), n \in 1..Len(notifications), e \in 1..Len(events) :
     /\ grants[g].permission = "owner"
     /\ events[e].user_id = grants[g].owner_id
     /\ notifications[n].user_id = grants[g].member_id
     /\ notifications[n].message.who # grants[g].member_id

(* C4: no step changes the owner (user_id) of a stored Event.               *)
C4_OwnerNeverChanges ==
  [][\A i \in 1..Len(events) : events'[i].user_id = events[i].user_id]_vars

(* C5: no step removes a Transaction or changes the event_id, added_by,     *)
(* amount, payment_method or note of a stored one.                          *)
C5_LedgerIsAppendOnly ==
  [][/\ Len(transactions') >= Len(transactions)
     /\ \A j \in 1..Len(transactions) :
          /\ DOMAIN transactions'[j] = DOMAIN transactions[j]
          /\ \A f \in DOMAIN transactions[j] \ {"deleted_at", "reference"} :
               transactions'[j][f] = transactions[j][f]]_vars

(* C5 witness: a payment has been replaced with another amount and its      *)
(* successor soft-deleted                                                   *)
C5_Witness ==
  \E j \in 1..Len(transactions), k \in 1..Len(transactions) :
     /\ transactions[k].reference # <<>>
     /\ transactions[k].reference[1] = OldIdNote(j)
     /\ transactions[k].amount # transactions[j].amount
     /\ transactions[j].deleted_at # NoDate
     /\ transactions[k].deleted_at # NoDate

(* the Transactions of event e that count in its balance, in a ledger txs *)
ActiveIn(txs, e) ==
  {j \in 1..Len(txs) : txs[j].event_id = e /\ txs[j].deleted_at = NoDate}

RECURSIVE SumAmounts(_, _)
SumAmounts(txs, S) ==
  IF S = {} THEN 0
  ELSE LET j == CHOOSE x \in S : TRUE IN txs[j].amount + SumAmounts(txs, S \ {j})

(* the active balance of event e in a ledger txs *)
Balance(txs, e) == SumAmounts(txs, ActiveIn(txs, e))

(* C6: an accepted replacePayment of t on event E leaves the balance of E   *)
(* at the balance before minus t.amount plus the amount of the new          *)
(* Transaction, and t outside the sum.                                      *)
C6_ReplaceSwapsTheAmount ==
  \A a \in Users, e \in EventIds, t \in TxIds, b \in PaymentBodies :
     updatePayment_code(a, e, t, b) = 200 =>
        LET txs == updatePayment_transactions(a, e, t, b) IN
        /\ t \notin ActiveIn(txs, e)
        /\ Balance(txs, e) =
             Balance(transactions, e) - transactions[t].amount + txs[Len(txs)].amount

(* old_transaction_id as the stored document has it *)
StoredOldTransactionId(doc) ==
  IF "old_transaction_id" \in DOMAIN doc THEN doc.old_transaction_id ELSE NoId

(* C7: the Transaction an accepted replacePayment of t stores has           *)
(* old_transaction_id = t.                                                  *)
C7_SuccessorLinksToPredecessor ==
  \A a \in Users, e \in EventIds, t \in TxIds, b \in PaymentBodies :
     updatePayment_code(a, e, t, b) = 200 =>
        LET txs == updatePayment_transactions(a, e, t, b) IN
        StoredOldTransactionId(txs[Len(txs)]) = t

(* the predecessor updatePayment recorded for stored Transaction j: the id  *)
(* after "Soft deleted transaction id:" in its reference (the id it passed  *)
(* as old_transaction_id), NoId for a Transaction that replaced nothing     *)
PredecessorOf(j) ==
  LET ref == transactions[j].reference
      at == {i \in 1..Len(ref) : ref[i].kind = "Soft deleted transaction id:"}
  IN IF at = {} THEN NoId ELSE ref[CHOOSE i \in at : TRUE].id

SuccessorsOf(t) == {j \in 1..Len(transactions) : PredecessorOf(j) = t}

(* the chain of j: j and everything it reaches through predecessor links *)
RECURSIVE Chain(_)
Chain(j) == IF j = NoId THEN {} ELSE {j} \cup Chain(PredecessorOf(j))

(* C8: every Transaction is the predecessor of at most one other, and every *)
(* chain of predecessor links holds at most one Transaction with            *)
(* deleted_at = null.                                                       *)
C8_ChainsAreLinear ==
  /\ \A t \in 1..Len(transactions) : Cardinality(SuccessorsOf(t)) <= 1
  /\ \A j \in 1..Len(transactions) :
       Cardinality({k \in Chain(j) : transactions[k].deleted_at = NoDate}) <= 1

(* C9: of two replacePayment calls on the same Transaction that both looked *)
(* it up before the other stamped it, at most one answers 200, and the      *)
(* Transaction never has two successors.                                    *)
C9_ConcurrentReplaceHasOneWinner ==
  \A p \in Procs, q \in Procs :
     ( /\ p # q
       /\ inflight[p].pc = "done" /\ inflight[q].pc = "done"
       /\ inflight[p].tx = inflight[q].tx /\ inflight[p].tx # NoId
       /\ inflight[p].found_deleted_at = NoDate
       /\ inflight[q].found_deleted_at = NoDate )
     => /\ ~(inflight[p].code = 200 /\ inflight[q].code = 200)
        /\ Cardinality(SuccessorsOf(inflight[p].tx)) <= 1

(* C10: on a Transaction whose deleted_at is set, a replacePayment and a    *)
(* softDeletePayment that pass the event lookup and the access check answer *)
(* 404 and leave the ledger as it is.                                       *)
C10_DeletedIsNotFound ==
  \A a \in Users, e \in 1..Len(events), t \in 1..Len(transactions) :
     ( /\ transactions[t].deleted_at # NoDate
       /\ transactions[t].event_id = e
       /\ EventFindById(e) # NoId
       /\ checkAccess(a, events[e].user_id, "write") )
     => /\ updatePayment_status(a, e, t) = 404
        /\ deletePayment_status(a, e, t) = 404
        /\ \A b \in PaymentBodies :
             (IF updatePayment_status(a, e, t) = 200
              THEN updatePayment_transactions(a, e, t, b) ELSE transactions) = transactions
        /\ (IF deletePayment_status(a, e, t) = 200
            THEN deletePayment_transactions(a, e, t) ELSE transactions) = transactions

(* C11: on an Event a softDelete has flagged, a softDelete by an actor with *)
(* write access to its owner answers 400 "Event already deleted", and the   *)
(* flag stays set.                                                          *)
C11_SecondSoftDeleteIsConflict ==
  \A a \in Users, e \in 1..Len(events) :
     ( /\ events[e].is_deleted /\ events[e].deleted_at # NoDate
       /\ AccessTable(a, events[e].user_id, "write") ) =>
        /\ deleteEvent_status(a, e) = 400
        /\ (IF deleteEvent_status(a, e) = 200
            THEN deleteEvent_events(a, e) ELSE events)[e].is_deleted

(* the audience of a fan-out on an event of owner by actor *)
Audience(owner, actor) ==
  ({owner} \cup {grants[g].member_id :
                   g \in {i \in 1..Len(grants) : /\ grants[i].owner_id = owner
                                                  /\ grants[i].permission \in {"owner", "write"}}})
    \ {actor}

(* the records store holds beyond those of notifications are one per user   *)
(* of audience, all with the same title and message                         *)
OnePerRecipient(store, audience) ==
  LET new == (Len(notifications) + 1)..Len(store) IN
  /\ {store[i].user_id : i \in new} = audience
  /\ Cardinality(new) = Cardinality(audience)
  /\ \A i \in new, k \in new :
       store[i].title = store[k].title /\ store[i].message = store[k].message

(* C12: every accepted addPayment or updateStatusAndPriority on event e by  *)
(* actor a persists exactly one Notification for each of e's owner and the  *)
(* members with an owner or write Grant of e's owner, a excepted, all with  *)
(* one title and message.                                                   *)
C12_FanoutAudienceIsExact ==
  \A a \in Users, e \in 1..Len(events) :
     /\ \A b \in PaymentBodies :
          addPayment_status(a, e, b) = 201 =>
            OnePerRecipient(addPayment_notifications(a, e, b),
                            Audience(events[e].user_id, a))
     /\ \A b \in StatusBodies :
          updateEventStatusPriority_status(a, e, b) = 201 =>
            OnePerRecipient(updateEventStatusPriority_notifications(a, e, b),
                            Audience(events[e].user_id, a))

(* C12 witness: a payment by a write member was fanned out to the owner     *)
(* while another member holds only a read Grant and got nothing             *)
C12_Witness ==
  \E g \in 1..Len(grants), r \in 1..Len(grants), n \in 1..Len(notifications) :
     /\ grants[g].permission = "write"
     /\ grants[r].permission = "read" /\ grants[r].owner_id = grants[g].owner_id
     /\ notifications[n].title = "New Payment Added"
     /\ notifications[n].message.who = grants[g].member_id
     /\ notifications[n].user_id = grants[g].owner_id
     /\ \A k \in 1..Len(notifications) : notifications[k].user_id # grants[r].member_id

(* the status codes of a success outcome *)
SuccessCodes == {200, 201}

(* C13: the step in which a call learns that the push sink failed changes   *)
(* no Event, Transaction or Notification, and the call answers with a       *)
(* success code.                                                            *)
C13_SinkFailureUndoesNothing ==
  [][\A p \in Procs :
       ( /\ fanout[p].pc = "pushing"
         /\ fanout'[p].pc = "done"
         /\ fanout'[p].sink = "error" )
       => /\ events' = events
          /\ transactions' = transactions
          /\ notifications' = notifications
          /\ fanout'[p].code \in SuccessCodes]_vars

(* C13 witness: an addPayment whose push failed has answered, and its       *)
(* Transaction and a Notification it stored are in the collections          *)
C13_Witness ==
  \E p \in Procs, t \in 1..Len(transactions), n \in 1..Len(notifications) :
     /\ fanout[p].pc = "done" /\ fanout[p].sink = "error"
     /\ fanout[p].op = "addPayment"
     /\ transactions[t].added_by = fanout[p].actor
     /\ transactions[t].event_id = fanout[p].event
     /\ notifications[n].message.who = fanout[p].actor
     /\ notifications[n].title = "New Payment Added"

(* C14: a call whose push failed answers with a success code and a result   *)
(* that differs from the one it gives when the push succeeded.              *)
C14_SinkFailureIsReported ==
  \A p \in Procs :
     (fanout[p].pc = "done" /\ fanout[p].sink = "error") =>
        /\ fanout[p].code \in SuccessCodes
        /\ fanout[p].text # PushResponse(fanout[p].op, "ok").text

(* C15: a call that has committed its Transaction or Event answers with a   *)
(* success code, also when insertMany rejects.                              *)
C15_NotificationStoreFailureIsNotAFailure ==
  [][\A p \in Procs :
       (fanout[p].pc = "committed" /\ fanout'[p].pc = "done")
       => fanout'[p].code \in SuccessCodes]_vars

(* C16: every call that awaits the push sink eventually answers.            *)
C16_EveryCallReturns ==
  \A p \in Procs : (fanout[p].pc = "pushing") ~> (fanout[p].pc = "done")

(* the status codes of validation, forbidden and not-found outcomes *)
FailureCodes == {400, 403, 404, 422}

(* what a handler that answers code leaves of a collection: result when     *)
(* its writes were reached (reached), current otherwise                     *)
Left(reached, result, current) == IF reached THEN result ELSE current

(* C17: a request that ends in a validation, forbidden or not-found outcome *)
(* leaves every Grant, Event, Transaction and Notification as it was, and   *)
(* createEvent by an actor whose resolved owner denies write answers 403.   *)
C17_FailedRequestsChangeNothing ==
  \A a \in Users :
    /\ \A b \in CreateBodies :
         /\ createEvent_status(a, b) \in FailureCodes =>
              /\ Left(createEvent_status(a, b) = 201, createEvent_events(a, b), events) = events
              /\ Left(createEvent_status(a, b) = 201, createEvent_transactions(a, b),
                      transactions) = transactions
         /\ (CreateBodyValid(b) /\ ~AccessTable(a, ResolveOwner(a), "write")) =>
              createEvent_status(a, b) = 403
    /\ \A g \in 1..MaxGrants, p \in Permissions \cup {"admin"} :
         editFamilyPermission_status(a, g, p) \in FailureCodes =>
           Left(editFamilyPermission_status(a, g, p) = 200,
                [grants EXCEPT ![g].permission = p], grants) = grants
    /\ \A e \in EventIds :
         /\ \A b \in StatusBodies :
              updateEventStatusPriority_status(a, e, b) \in FailureCodes =>
                Left(updateEventStatusPriority_status(a, e, b) = 201,
                     updateEventStatusPriority_events(a, e, b), events) = events
         /\ \A p \in EventPatches :
              updateEvent_status(a, e, p) \in FailureCodes =>
                Left(updateEvent_status(a, e, p) = 200, updateEvent_events(a, e, p),
                     events) = events
         /\ deleteEvent_status(a, e) \in FailureCodes =>
              Left(deleteEvent_status(a, e) = 200, deleteEvent_events(a, e), events) = events
         /\ \A b \in PaymentBodies :
              addPayment_status(a, e, b) \in FailureCodes =>
                Left(addPayment_status(a, e, b) = 201, addPayment_transactions(a, e, b),
                     transactions) = transactions
         /\ \A t \in TxIds :
              /\ \A b \in PaymentBodies :
                   updatePayment_code(a, e, t, b) \in FailureCodes =>
                     Left(updatePayment_status(a, e, t) = 200,
                          updatePayment_transactions(a, e, t, b), transactions) = transactions
              /\ deletePayment_status(a, e, t) \in FailureCodes =>
                   Left(deletePayment_status(a, e, t) = 200,
                        deletePayment_transactions(a, e, t), transactions) = transactions

(* an event id that no Event has *)
NoSuchEvent == MaxEvents + 1

(* C18: for an actor with neither read nor write access to the owner of a   *)
(* stored, non-deleted Event, each handler answers on that event's id what  *)
(* it answers on an id that no Event has.                                   *)
C18_ForbiddenDoesNotRevealExistence ==
  \A a \in Users, e \in 1..Len(events) :
     ( /\ ~events[e].is_deleted
       /\ ~AccessTable(a, events[e].user_id, "read")
       /\ ~AccessTable(a, events[e].user_id, "write") )
     => /\ getEventById_status(a, e) = getEventById_status(a, NoSuchEvent)
        /\ deleteEvent_status(a, e) = deleteEvent_status(a, NoSuchEvent)
        /\ \A p \in EventPatches :
             updateEvent_status(a, e, p) = updateEvent_status(a, NoSuchEvent, p)
        /\ \A b \in PaymentBodies :
             addPayment_status(a, e, b) = addPayment_status(a, NoSuchEvent, b)
        /\ \A t \in TxIds, b \in PaymentBodies :
             /\ updatePayment_code(a, e, t, b) = updatePayment_code(a, NoSuchEvent, t, b)
             /\ deletePayment_status(a, e, t) = deletePayment_status(a, NoSuchEvent, t)

(* C19: at most one Grant exists for each (owner, member) pair.             *)
C19_OneGrantPerPair ==
  \A i \in 1..Len(grants), j \in 1..Len(grants) :
     (grants[i].owner_id = grants[j].owner_id /\ grants[i].member_id = grants[j].member_id)
       => i = j

(* C20: every Grant an accepted giveFamilyAccess creates or changes has the *)
(* actor as owner_id; editFamilyPermission is accepted only from the owner  *)
(* of the Grant and, with a valid level, answers 404 to anyone else, so a   *)
(* request of a member leaves the level of their own Grant as it is.        *)
C20_OnlyTheOwnerWritesGrants ==
  \A a \in Users :
    /\ \A m \in Users, p \in Permissions :
         giveFamilyAccess_status(a, m, p) = 200 =>
           LET gs == Upsert(a, UserFindOneByEmail(m), p) IN
           \A i \in 1..Len(gs) :
              (i > Len(grants) \/ gs[i] # grants[i]) => gs[i].owner_id = a
    /\ \A g \in 1..Len(grants), p \in Permissions :
         /\ editFamilyPermission_status(a, g, p) = 200 => grants[g].owner_id = a
         /\ grants[g].owner_id # a => editFamilyPermission_status(a, g, p) = 404
         /\ (grants[g].member_id = a /\ grants[g].owner_id # a) =>
              /\ Left(editFamilyPermission_status(a, g, p) = 200,
                      [grants EXCEPT ![g].permission = p], grants)[g] = grants[g]
              /\ \A m \in Users :
                   Left(giveFamilyAccess_status(a, m, p) = 200,
                        Upsert(a, UserFindOneByEmail(m), p), grants)[g] = grants[g]

(* C20 witness: two owners have granted access, and the member of a read    *)
(* Grant is refused when asking for level owner on it                       *)
C20_Witness ==
  \E g \in 1..Len(grants), h \in 1..Len(grants) :
     /\ grants[g].owner_id # grants[h].owner_id
     /\ grants[g].permission = "read"
     /\ editFamilyPermission_status(grants[g].member_id, g, "owner") = 404

(* the Grants actor holds as a member *)
GrantsAsMember(actor) == {i \in 1..Len(grants) : grants[i].member_id = actor}

(* C21: every accepted create by actor stores one new Event whose           *)
(* created_by is actor and whose owner is actor when actor holds no Grant   *)
(* as a member, and the owner_id of the Grant (another user) when actor     *)
(* holds exactly one.                                                       *)
C21_CreateFilesUnderEffectiveOwner ==
  \A a \in Users, b \in CreateBodies :
     createEvent_status(a, b) = 201 =>
        LET evs == createEvent_events(a, b)
            new == evs[Len(events) + 1]
        IN /\ Len(evs) = Len(events) + 1
           /\ \A i \in 1..Len(events) : evs[i] = events[i]
           /\ new.created_by = a
           /\ GrantsAsMember(a) = {} => new.user_id = a
           /\ \A g \in GrantsAsMember(a) :
                GrantsAsMember(a) = {g} =>
                   new.user_id = grants[g].owner_id /\ new.user_id # a

(* C21 witness: a member with exactly one Grant has created an Event that   *)
(* is stored under the Grant's owner, and a user with no Grant one stored   *)
(* under itself                                                             *)
C21_Witness ==
  /\ \E e \in 1..Len(events), g \in 1..Len(grants) :
       /\ GrantsAsMember(events[e].created_by) = {g}
       /\ events[e].user_id = grants[g].owner_id
       /\ events[e].user_id # events[e].created_by
  /\ \E e \in 1..Len(events) :
       GrantsAsMember(events[e].created_by) = {} /\ events[e].user_id = events[e].created_by

(* C22: an accepted create with advance_payment > 0 appends one Transaction *)
(* of the new Event with amount advance_payment, note "Advance payment      *)
(* (initial)", added_by the actor and no deleted_at; one with advance 0 or  *)
(* absent appends none; the stored Transactions stay as they are and the    *)
(* new Event's active balance is advance_payment.                           *)
C22_CreateRecordsTheAdvance ==
  \A a \in Users, b \in CreateBodies :
     createEvent_status(a, b) = 201 =>
        LET txs == createEvent_transactions(a, b)
            E == Len(events) + 1
            n == Len(transactions)
        IN /\ \A j \in 1..n : j <= Len(txs) /\ txs[j] = transactions[j]
           /\ AdvanceOf(b) > 0 =>
                /\ Len(txs) = n + 1
                /\ txs[n + 1].event_id = E
                /\ txs[n + 1].amount = b.advance_payment
                /\ txs[n + 1].note = "Advance payment (initial)"
                /\ txs[n + 1].added_by = a
                /\ txs[n + 1].deleted_at = NoDate
           /\ (b.advance_payment = UNDEF \/ b.advance_payment = 0) => Len(txs) = n
           /\ Balance(txs, E) = AdvanceOf(b)

(* C22 witness: one Event was created with an advance and has its initial   *)
(* Transaction, another was created without and has none                    *)
C22_Witness ==
  /\ \E e \in 1..Len(events), j \in 1..Len(transactions) :
       /\ events[e].advance_payment > 0
       /\ transactions[j].event_id = e
       /\ transactions[j].note = "Advance payment (initial)"
       /\ transactions[j].amount = events[e].advance_payment
       /\ transactions[j].added_by = events[e].created_by
  /\ \E e \in 1..Len(events) :
       /\ events[e].advance_payment = 0
       /\ \A j \in 1..Len(transactions) : transactions[j].event_id # e

(* C23: updateStatusAndPriority is accepted only for an Event whose stored  *)
(* owner is the actor's effective owner and lets the actor write; a valid   *)
(* request of an actor who may write under its effective owner, for an      *)
(* Event of another owner, is answered not-found; an accepted request       *)
(* changes nothing but the status and priority it provides, of that Event   *)
(* alone, and leaves status within {0,1,2} and priority within {low,        *)
(* medium, high}.                                                           *)
C23_StatusPriorityIsOwnerScoped ==
  \A a \in Users, e \in 1..Len(events), b \in StatusBodies :
     LET st == updateEventStatusPriority_status(a, e, b)
         evs == updateEventStatusPriority_events(a, e, b)
     IN /\ st = 201 =>
             /\ events[e].user_id = ResolveOwner(a)
             /\ AccessTable(a, events[e].user_id, "write")
             /\ Len(evs) = Len(events)
             /\ \A i \in 1..Len(events) \ {e} : evs[i] = events[i]
             /\ \A f \in DOMAIN events[e] \ {"status", "priority"} : evs[e][f] = events[e][f]
             /\ b.status = UNDEF => evs[e].status = events[e].status
             /\ b.priority = NULL => evs[e].priority = events[e].priority
             /\ evs[e].status \in ValidStatus
             /\ evs[e].priority \in ValidPriorities
        /\ ( /\ st \notin {400, 422}
             /\ checkAccess(a, ResolveOwner(a), "write")
             /\ events[e].user_id # ResolveOwner(a) ) => st = 404

(* sequence p is a prefix of sequence s *)
IsPrefix(p, s) == Len(p) <= Len(s) /\ \A k \in 1..Len(p) : s[k] = p[k]

(* C24: an accepted softDeletePayment of a non-deleted Transaction t of     *)
(* Event E stamps t.deleted_at, keeps t's reference as a prefix of the new  *)
(* one and t's other fields as they are, adds no Transaction, leaves every  *)
(* other Transaction as it is and lowers E's active balance by t.amount.    *)
C24_SoftDeleteLowersTheBalance ==
  \A a \in Users, e \in EventIds, t \in 1..Len(transactions) :
     (deletePayment_status(a, e, t) = 200 /\ transactions[t].deleted_at = NoDate) =>
        LET txs == deletePayment_transactions(a, e, t) IN
        /\ Len(txs) = Len(transactions)
        /\ txs[t].deleted_at # NoDate
        /\ IsPrefix(transactions[t].reference, txs[t].reference)
        /\ txs[t].reference # transactions[t].reference
        /\ \A f \in DOMAIN transactions[t] \ {"deleted_at", "reference"} :
             txs[t][f] = transactions[t][f]
        /\ \A j \in 1..Len(transactions) \ {t} : txs[j] = transactions[j]
        /\ Balance(txs, e) = Balance(transactions, e) - transactions[t].amount

(* C24 witness: a payment stored with a reference has been soft-deleted     *)
(* once, by deletePayment, and its event has another payment that counts    *)
C24_Witness ==
  \E t \in 1..Len(transactions), j \in 1..Len(transactions) :
     /\ transactions[t].deleted_at # NoDate
     /\ Len(transactions[t].reference) = 2
     /\ transactions[t].reference[1] = Text("receipt")
     /\ transactions[t].reference[2].kind = "Soft deleted by user at"
     /\ j # t
     /\ transactions[j].event_id = transactions[t].event_id
     /\ transactions[j].deleted_at = NoDate

(* what a read of actor shows: no soft-deleted Event and no soft-deleted    *)
(* Transaction, in the list of getEvents and in the answer of getEventById  *)
ReadsShowNoDeleted ==
  \A a \in Users :
     /\ \A e \in getEvents_events(a) :
          /\ ~events[e].is_deleted
          /\ \A t \in getEvents_transactions(a, e) : transactions[t].deleted_at = NoDate
     /\ \A e \in EventIds :
          getEventById_status(a, e) = 200 =>
             /\ ~events[e].is_deleted
             /\ \A t \in getEventById_transactions(e) : transactions[t].deleted_at = NoDate

(* requests addressed to a soft-deleted Event are not accepted: each is     *)
(* answered not-found, updateStatusAndPriority once the body is valid and   *)
(* the actor may write under its effective owner                            *)
DeletedEventIsNotFound ==
  \A a \in Users, e \in 1..Len(events) :
     events[e].is_deleted =>
        /\ getEventById_status(a, e) = 404
        /\ \A p \in EventPatches : updateEvent_status(a, e, p) = 404
        /\ \A b \in StatusBodies :
             updateEventStatusPriority_status(a, e, b) \in {400, 422, 403, 404}
        /\ \A b \in PaymentBodies : addPayment_status(a, e, b) = 404
        /\ \A t \in TxIds :
             /\ deletePayment_status(a, e, t) = 404
             /\ \A b \in PaymentBodies : updatePayment_code(a, e, t, b) = 404

Accessible(actor) ==
  {e \in 1..Len(events) :
     /\ ~events[e].is_deleted
     /\ \/ events[e].user_id = actor
        \/ \E g \in GrantsAsMember(actor) : grants[g].owner_id = events[e].user_id}

(* the Transactions of event e actor may see *)
Visible(actor, e) ==
  IF \/ GrantsAsMember(actor) = {}
     \/ \E g \in GrantsAsMember(actor) : grants[g].permission = "owner"
  THEN ActiveIn(transactions, e)
  ELSE {t \in ActiveIn(transactions, e) : transactions[t].added_by = actor}

(* getEvents of src/unnamed/part_000 lists and attaches exactly that *)
ListIsExact ==
  \A a \in Users :
     /\ getEvents_events(a) = Accessible(a)
     /\ \A e \in Accessible(a) : getEvents_transactions(a, e) = Visible(a, e)

(* C26: listAccessible(actor), in both controllers that define it, returns  *)
(* exactly the non-deleted Events of the actor and of the owners under      *)
(* which the actor holds a Grant, and attaches to each all its non-deleted  *)
(* Transactions when the actor holds no Grant as a member or one of level   *)
(* owner, and otherwise only those the actor added.                         *)
C26_ListIsExactAndFiltered ==
  /\ ListIsExact
  /\ \A a \in Users :
       /\ getEvents_events_EventController(a) = Accessible(a)
       /\ \A e \in Accessible(a) :
            getEvents_transactions_EventController(a, e) = Visible(a, e)

(* C27: in every reachable state an Event has is_deleted = true exactly    *)
(* when its deleted_at is set.                                              *)
C27_DeletedFlagMatchesDate ==
  \A e \in 1..Len(events) : events[e].is_deleted <=> events[e].deleted_at # NoDate

(* C28: getEvents attaches to every non-deleted Event the actor owns all    *)
(* of that Event's non-deleted Transactions, whoever added them and         *)
(* whatever Grants the actor holds as a member of other owners.             *)
C28_OwnerSeesWholeLedger ==
  \A a \in Users, e \in 1..Len(events) :
     (events[e].user_id = a /\ ~events[e].is_deleted) =>
        /\ e \in getEvents_events(a)
        /\ getEvents_transactions(a, e) = ActiveIn(transactions, e)

(* a body of updateStatusAndPriority with valid fields *)
ValidFields(b) ==
  /\ b.status # UNDEF \/ b.priority # NULL
  /\ b.status = UNDEF \/ b.status \in ValidStatus
  /\ b.priority = NULL \/ b.priority \in ValidPriorities

(* C29: updateStatusAndPriority called with valid fields by the stored      *)
(* owner of a non-deleted Event is answered neither forbidden nor           *)
(* not-found, whatever Grants that owner holds as a member.                 *)
C29_OwnerCanAlwaysUpdateStatus ==
  \A a \in Users, e \in 1..Len(events), b \in StatusBodies :
     (events[e].user_id = a /\ ~events[e].is_deleted /\ ValidFields(b)) =>
        updateEventStatusPriority_status(a, e, b) \notin {403, 404}

(* the record each operation changes *)
ChangedRecord(op) == IF op = "addPayment" THEN "transaction" ELSE "event"

(* C30: a call of addPayment or updateStatusAndPriority whose push call     *)
(* succeeded answers with a success code, does not report a delivery        *)
(* failure, and carries the record it changed.                              *)
C30_FailureReportedOnlyOnSinkFailure ==
  \A p \in Procs :
     (fanout[p].pc = "done" /\ fanout[p].sink = "ok") =>
        /\ fanout[p].code \in SuccessCodes
        /\ fanout[p].text # "Payment added but OneSignal notification failed."
        /\ PushResponse(fanout[p].op, "ok").record = ChangedRecord(fanout[p].op)

====
